---- MODULE Spec2Model ----
(***************************************************************************)
(* Model of the Advent of Code toolkit: fetch.py (input fetcher), setup.py *)
(* (attempt scaffolder) and run.py (bench-runner).                         *)
(*                                                                         *)
(* The state is the working tree the three scripts act on (auth.txt, the   *)
(* dayNN directories and their entries, the files of each attempt, the     *)
(* inputs directory) and the one script process that is running: its       *)
(* position, its arguments, its exit status, what it printed and the       *)
(* side effects it had (directories made, files written, subprocesses).    *)
(* Text is modelled as sequences of one-character strings wherever the     *)
(* code inspects it character by character (the entry-name pattern).       *)
(***************************************************************************)
EXTENDS Integers, Sequences, FiniteSets, TLC

\* ------------------------------------------------------------- bounds
MaxDay == 2
MaxWarmup == 1
MaxRounds == 2
MaxClock == 2
MaxInv == 2

Days == 1..MaxDay

\* ------------------------------------------------- setup.py: constants
SUFFIXES == <<"go", "js", "py", "rs", "ts">>

SuffixSet == {SUFFIXES[i] : i \in DOMAIN SUFFIXES}

SUFFIX_LANGS == [rs |-> "Rust", py |-> "Python", go |-> "Go",
                 js |-> "JavaScript", ts |-> "TypeScript"]

UserChoices == {"ahr", "ukr"}

\* ------------------------------------------------------------- text
\* The characters of the strings the scripts build names from.
CharsOf == [py |-> <<"p", "y">>, go |-> <<"g", "o">>, js |-> <<"j", "s">>,
            ts |-> <<"t", "s">>, rs |-> <<"r", "s">>,
            cpp |-> <<"c", "p", "p">>,
            ahr |-> <<"a", "h", "r">>, ukr |-> <<"u", "k", "r">>]

Chars(s) == CharsOf[s]

DigitChars == <<"0", "1", "2", "3", "4", "5", "6", "7", "8", "9">>

Digit(n) == DigitChars[n + 1]

\* f"{day:02d}" for 0 <= day < 100
Pad2(day) == <<Digit(day \div 10), Digit(day % 10)>>

\* f"{lang}-{user}-day{day:02d}"
AttemptName(lang, user, day) ==
    Chars(lang) \o <<"-">> \o Chars(user) \o <<"-", "d", "a", "y">> \o Pad2(day)

\* \w and \d of the re module, over the characters that occur in the model
WordChars == {"a", "c", "d", "e", "g", "h", "j", "k", "n", "o", "p", "r",
              "s", "t", "u", "x", "y", "_",
              "0", "1", "2", "3", "4", "5", "6", "7", "8", "9"}

DigitSet == {DigitChars[i] : i \in DOMAIN DigitChars}

IsWords(s) == Len(s) >= 1 /\ \A i \in DOMAIN s : s[i] \in WordChars

IsDigits(s) == Len(s) >= 1 /\ \A i \in DOMAIN s : s[i] \in DigitSet

\* a pattern that lets every name through, as (.*)() would
EntryMatchAny(name) == { <<name, <<>>>> }

\* ENTRY_PAT.fullmatch(name): the set of (group 1, group 2) of the matches
\* of ^(\w+)-(\w+)-day\d+$ ; empty when there is none, and at most one
\* since neither \w nor \d nor "day" holds a "-".
EntryMatch(name) ==
    { <<SubSeq(name, 1, i - 1), SubSeq(name, i + 1, j - 1)>> :
        <<i, j>> \in { ij \in (DOMAIN name) \X (DOMAIN name) :
            /\ ij[1] < ij[2]
            /\ name[ij[1]] = "-"
            /\ name[ij[2]] = "-"
            /\ IsWords(SubSeq(name, 1, ij[1] - 1))
            /\ IsWords(SubSeq(name, ij[1] + 1, ij[2] - 1))
            /\ Len(name) >= ij[2] + 4
            /\ SubSeq(name, ij[2] + 1, ij[2] + 3) = <<"d", "a", "y">>
            /\ IsDigits(SubSeq(name, ij[2] + 4, Len(name))) } }

\* ------------------------------------------- setup.py: the boilerplate
\* What a run of each boilerplate entry point does, as the sequence of the
\* lines it prints ("Part k") and the stubs it calls ("partk()"), given the
\* argument vector the program sees.  Index i of the source is i + 1 here.

\* main.py: both stub calls are indented one level, under the __main__ test
\* and outside the two tests of argv
BoilerPy(argv) ==
    (IF Len(argv) < 2 \/ argv[2] = "1" THEN <<"Part 1">> ELSE <<>>)
    \o <<"part1()">>
    \o (IF Len(argv) < 2 \/ argv[2] = "2" THEN <<"Part 2">> ELSE <<>>)
    \o <<"part2()">>

\* main.go: os.Args
BoilerGo(argv) ==
    (IF Len(argv) < 2 \/ argv[2] = "1" THEN <<"Part 1", "part1()">> ELSE <<>>)
    \o (IF Len(argv) < 2 \/ argv[2] = "2" THEN <<"Part 2", "part2()">> ELSE <<>>)

\* index.js and index.ts: process.argv
BoilerJs(argv) ==
    (IF Len(argv) < 2 \/ argv[2] = "1" THEN <<"Part 1", "part1()">> ELSE <<>>)
    \o (IF Len(argv) < 2 \/ argv[2] = "2" THEN <<"Part 2", "part2()">> ELSE <<>>)

\* src/main.rs: std::env::args().nth(1)
BoilerRs(argv) ==
    LET p1 == IF Len(argv) >= 2 THEN argv[2] = "1" ELSE TRUE
        p2 == IF Len(argv) >= 2 THEN argv[2] = "2" ELSE TRUE
    IN  (IF p1 THEN <<"Part 1", "part1()">> ELSE <<>>)
        \o (IF p2 THEN <<"Part 2", "part2()">> ELSE <<>>)

\* The text of a source file is a token; a file that is not one of the
\* boilerplates is a solution written by hand, of which nothing is known.
Behaviour(text, argv) ==
    CASE text = "boiler.py" -> BoilerPy(argv)
      [] text = "boiler.go" -> BoilerGo(argv)
      [] text = "boiler.js" -> BoilerJs(argv)
      [] text = "boiler.rs" -> BoilerRs(argv)
      [] OTHER -> <<"custom">>

\* --------------------------------------- the command lines and launchers
PYTHON == ".venv/bin/python3"

\* the arguments that follow the first "--" of a command line
AfterDashes(cmd) ==
    LET at == {i \in DOMAIN cmd : cmd[i] = "--"}
    IN  IF at = {} THEN <<>>
        ELSE LET first == CHOOSE i \in at : \A k \in at : i <= k
             IN  SubSeq(cmd, first + 1, Len(cmd))

\* The argument vector the launched program sees.  python3 drops itself
\* (sys.argv[0] is the script); go run and node hand on everything after the
\* package or script, a "--" included; cargo run hands on what follows its
\* "--".
ProgramArgv(cmd) ==
    CASE cmd[1] = PYTHON -> Tail(cmd)
      [] cmd[1] = "go" -> <<"main">> \o SubSeq(cmd, 4, Len(cmd))
      [] cmd[1] = "node" -> cmd
      [] cmd[1] = "cargo" -> <<"main">> \o AfterDashes(cmd)
      [] OTHER -> cmd

\* The source file a command line executes, "" when it runs none of the
\* attempt's code
ProgramFile(cmd) ==
    CASE cmd[1] = PYTHON -> "main.py"
      [] cmd[1] = "go" /\ cmd[2] = "run" -> "main.go"
      [] cmd[1] = "node" -> "index.js"
      [] cmd[1] = "cargo" /\ cmd[2] = "run" -> "src/main.rs"
      [] OTHER -> ""

\* ----------------------------------------- setup.py: per-language setup
\* An operation of a setup routine: a subprocess (check=True) with the files
\* it leaves behind, the write of a file, or the read-modify-write of one.
Exec(cmd, makes) ==
    [op |-> "exec", cmd |-> cmd, file |-> "", text |-> "", makes |-> makes]

WriteFile(file, text) ==
    [op |-> "write", cmd |-> <<>>, file |-> file, text |-> text, makes |-> {}]

EditFile(file, text) ==
    [op |-> "edit", cmd |-> <<>>, file |-> file, text |-> text, makes |-> {}]

setup_py ==
    << Exec(<<"python3", "-m", "venv", ".venv">>, {<<PYTHON, "venv">>}),
       WriteFile("main.py", "boiler.py"),
       WriteFile(".gitignore", "/.venv *.pyc __pycache__") >>

setup_go ==
    << Exec(<<"go", "mod", "init", "dayNN">>, {<<"go.mod", "module dayNN">>}),
       WriteFile("main.go", "boiler.go"),
       WriteFile(".gitignore", "/dayNN") >>

setup_js(ext) ==
    << Exec(<<"npm", "init", "-y">>, {<<"package.json", "pkg.init">>}),
       EditFile("package.json", "pkg.node"),
       Exec(<<"npm", "install", "--save-dev", "@types/node">>,
            {<<"node_modules", "@types/node">>}),
       WriteFile(IF ext = "ts" THEN "index.ts" ELSE "index.js", "boiler.js"),
       WriteFile(".gitignore", "/node_modules") >>

setup_ts ==
    setup_js("ts") \o
    << EditFile("package.json", "pkg.tsc"),
       Exec(<<"npm", "install", "--save-dev", "typescript">>,
            {<<"node_modules", "typescript">>}),
       Exec(<<"npx", "tsc", "--init">>, {<<"tsconfig.json", "tsconfig">>}),
       WriteFile(".gitignore", "/index.js /node_modules") >>

setup_rs ==
    << Exec(<<"cargo", "init", "--name", "dayNN", "--bin", "--vcs", "none">>,
            {<<"Cargo.toml", "crate dayNN">>, <<"src/main.rs", "hello.rs">>}),
       WriteFile(".gitignore", "/target"),
       WriteFile("src/main.rs", "boiler.rs") >>

SETUPS(lang) ==
    CASE lang = "go" -> setup_go
      [] lang = "py" -> setup_py
      [] lang = "js" -> setup_js("js")
      [] lang = "ts" -> setup_ts
      [] lang = "rs" -> setup_rs

\* ------------------------------------------------- run.py: the runners
\* A runner is a sequence of subprocesses (check=True); part 0 is a build
\* step, outside the timed sections, part k > 0 the timed run of part k.
Step(cmd, part) == [cmd |-> cmd, part |-> part]

run_py ==
    << Step(<<PYTHON, "main.py", "1">>, 1),
       Step(<<PYTHON, "main.py", "2">>, 2) >>

run_go ==
    << Step(<<"go", "build", ".">>, 0),
       Step(<<"go", "run", ".", "--", "1">>, 1),
       Step(<<"go", "run", ".", "--", "2">>, 2) >>

run_js ==
    << Step(<<"node", "index.js", "--", "1">>, 1),
       Step(<<"node", "index.js", "--", "2">>, 2) >>

run_ts == << Step(<<"npx", "tsc">>, 0) >> \o run_js

run_rs ==
    << Step(<<"cargo", "build", "--release", "--quiet">>, 0),
       Step(<<"cargo", "run", "--release", "--quiet", "--", "1">>, 1),
       Step(<<"cargo", "run", "--release", "--quiet", "--", "2">>, 2) >>

\* the if/elif chain of the main loop; <<>> is its else branch (skipping)
Runner(lang) ==
    CASE lang = Chars("py") -> run_py
      [] lang = Chars("go") -> run_go
      [] lang = Chars("ts") -> run_ts
      [] lang = Chars("js") -> run_js
      [] lang = Chars("rs") -> run_rs
      [] OTHER -> <<>>

\* ------------------------------------------------------------- state
VARIABLES
    auth,       \* auth.txt exists
    days,       \* the days d whose directory day<dd> exists
    tree,       \* the entries <<d, name>> of the day directories
    files,      \* the files of the entries: [day, name, file, text]
    inputsDir,  \* the directory inputs exists
    inputs,     \* the days d whose inputs/day<dd>.txt was written
    pc,         \* position of the script process
    tool,       \* the script that runs: "fetch", "setup", "run", "direct"
    args,       \* its parsed arguments
    exit,       \* its exit status, -1 while it runs
    err,        \* the lines it wrote to the error stream
    out,        \* the lines it wrote to the output stream
    log,        \* its side effects, in order
    inv,        \* how many scripts were started
    todo,       \* setup.py: the operations of the setup routine still to do
    pending,    \* run.py: the entries day.iterdir() has yet to yield
    cur,        \* run.py: the entry in hand, with the groups of its match
    round,      \* run.py: calls of the runner completed for the entry
    step,       \* run.py: the subprocess of the runner that comes next
    p1,         \* run.py: the elapsed time of part 1 in the call in hand
    acc,        \* run.py: the samples of the list under construction
    times,      \* run.py: lang -> the (user, samples) items, as inserted
    observed,   \* every sample a runner returned, with its round
    clock,      \* process_time_ns()
    before,     \* the file tree as the running script found it
    past        \* the scaffolder runs that ended, once parsed

fsVars == <<auth, days, tree, files, inputsDir, inputs>>

procVars == <<pc, tool, args, exit, err, out, log, inv>>

runVars == <<pending, cur, round, step, p1, acc, times, observed, clock>>

vars == <<auth, days, tree, files, inputsDir, inputs,
          pc, tool, args, exit, err, out, log, inv, todo,
          pending, cur, round, step, p1, acc, times, observed, clock,
          before, past>>

\* --------------------------------------------------------- the file tree
\* day.iterdir(): the names of the entries of day<dd>
Entries(d) == {e[2] : e \in {x \in tree : x[1] = d}}

FilesOf(d, name) == {f \in files : f.day = d /\ f.name = name}

HasFile(d, name, file) == \E f \in FilesOf(d, name) : f.file = file

TextOf(d, name, file) ==
    IF HasFile(d, name, file)
    THEN (CHOOSE f \in FilesOf(d, name) : f.file = file).text
    ELSE ""

\* open(file, "w") and write, or a file a subprocess leaves behind
Put(fs, d, name, file, text) ==
    {f \in fs : ~(f.day = d /\ f.name = name /\ f.file = file)}
    \cup {[day |-> d, name |-> name, file |-> file, text |-> text]}

RECURSIVE PutAll(_, _, _, _)
PutAll(fs, d, name, made) ==
    IF made = {} THEN fs
    ELSE LET m == CHOOSE x \in made : TRUE
         IN  PutAll(Put(fs, d, name, m[1], m[2]), d, name, made \ {m})

\* The files a setup routine leaves when every operation of it succeeds
RECURSIVE Scaffolded(_, _, _, _)
Scaffolded(fs, d, name, ops) ==
    IF ops = <<>> THEN fs
    ELSE LET o == Head(ops)
             next == IF o.op = "exec" THEN PutAll(fs, d, name, o.makes)
                     ELSE Put(fs, d, name, o.file, o.text)
         IN  Scaffolded(next, d, name, Tail(ops))

\* The files a build step of a runner leaves: tsc compiles index.ts
BuildMakes(d, name, cmd) ==
    CASE cmd = <<"npx", "tsc">> ->
           IF HasFile(d, name, "index.ts")
           THEN {<<"index.js", TextOf(d, name, "index.ts")>>} ELSE {}
      [] cmd = <<"go", "build", ".">> -> {<<"dayNN", "binary">>}
      [] cmd[1] = "cargo" /\ cmd[2] = "build" -> {<<"target", "release">>}
      [] OTHER -> {}

\* --------------------------------------------------------- side effects
NoName == <<>>

Effect(op, cmd, d, name, part, rc, ran) ==
    [op |-> op, cmd |-> cmd, day |-> d, name |-> name, part |-> part,
     rc |-> rc, ran |-> ran]

MkdirEffect(path, d, name) == Effect("mkdir", <<path>>, d, name, 0, 0, <<>>)

WriteEffect(file, d, name) == Effect("write", <<file>>, d, name, 0, 0, <<>>)

\* A subprocess.  When it runs a source file of the entry, ran is what that
\* program did; a program that is missing makes the launcher fail.
Launch(cmd, d, name, part, rc) ==
    LET file == ProgramFile(cmd)
        ran == IF file # "" /\ rc = 0
               THEN Behaviour(TextOf(d, name, file), ProgramArgv(cmd))
               ELSE <<>>
    IN  Effect("exec", cmd, d, name, part, rc, ran)

\* The exit statuses a subprocess can end with
Statuses(cmd, d, name) ==
    IF ProgramFile(cmd) # "" /\ ~HasFile(d, name, ProgramFile(cmd))
    THEN {1} ELSE {0, 1}

Max(S) == CHOOSE x \in S : \A y \in S : y <= x

NoArgs == [day |-> 0, lang |-> "", user |-> "", cookie |-> FALSE,
           warmup |-> 0, rounds |-> 0, which |-> "", given |-> 0]

NoCur == [name |-> NoName, lang |-> NoName, user |-> NoName]

\* A script ends: sys.exit(code), an uncaught exception (status 1, the
\* traceback on the error stream) or the end of the script (status 0)
Ends(code, message) ==
    /\ pc' = "done"
    /\ exit' = code
    /\ err' = IF message = "" THEN err ELSE Append(err, message)

\* -------------------------------------------------------- initial states
\* Entries a day directory can hold before a script starts: attempts the
\* scaffolder made for user and language, and entries made by hand.
ScaffoldedEntry(lang, user, d) ==
    LET name == AttemptName(lang, user, d)
    IN  [name |-> name, files |-> Scaffolded({}, d, name, SETUPS(lang))]

HandMade(d, name, made) ==
    [name |-> name, files |-> PutAll({}, d, name, made)]

\* py-ahr-day<d>, the day not padded: a second directory of ahr's Python
OneDigit(d) ==
    HandMade(d, Chars("py") \o <<"-">> \o Chars("ahr")
                \o <<"-", "d", "a", "y">> \o <<Digit(d)>>,
             {<<"main.py", "solution.py">>})

EntryPool(d) ==
    {ScaffoldedEntry(l, "ahr", d) : l \in SuffixSet}
    \cup {OneDigit(d),
          HandMade(d, Chars("cpp") \o <<"-">> \o Chars("ahr")
                      \o <<"-", "d", "a", "y">> \o Pad2(d),
                   {<<"main.cpp", "solution.cpp">>}),
          HandMade(d, <<"n", "o", "t", "e", "s">>, {})}

\* the listings of a day directory: at most two of these entries
Listings(d) == {L \in SUBSET EntryPool(d) : Cardinality(L) <= 2}

InitProcess ==
    /\ pc = "idle"
    /\ tool = ""
    /\ args = NoArgs
    /\ exit = -1
    /\ err = <<>>
    /\ out = <<>>
    /\ log = <<>>
    /\ inv = 0
    /\ todo = <<>>
    /\ pending = {}
    /\ cur = NoCur
    /\ round = 0
    /\ step = 1
    /\ p1 = 0
    /\ acc = <<>>
    /\ times = <<>>
    /\ observed = <<>>
    /\ before = [days |-> {}, tree |-> {}, files |-> {}]
    /\ past = {}

Holds(d, L) ==
    /\ tree = {<<d, a.name>> : a \in L}
    /\ files = UNION {a.files : a \in L}

\* A working tree in which the latest day, at most, has entries, and a
\* process clock at its cap, where it stands still: every elapsed time is 0
Init ==
    /\ auth \in BOOLEAN
    /\ days \in SUBSET Days
    /\ inputsDir = FALSE
    /\ inputs = {}
    /\ IF days = {} THEN Holds(1, {})
       ELSE \E L \in Listings(Max(days)) : Holds(Max(days), L)
    /\ clock = MaxClock
    /\ InitProcess

\* Day 1 with Python attempts, and a process clock that starts at 0
BenchListings ==
    { {ScaffoldedEntry("py", "ahr", 1)},
      {ScaffoldedEntry("py", "ahr", 1), ScaffoldedEntry("py", "ukr", 1)},
      {ScaffoldedEntry("py", "ahr", 1), OneDigit(1)} }

InitBench ==
    /\ auth = TRUE
    /\ days = {1}
    /\ inputsDir = FALSE
    /\ inputs = {}
    /\ \E L \in BenchListings : Holds(1, L)
    /\ clock = 0
    /\ InitProcess

\* A repository in which nothing was scaffolded yet
InitSetup ==
    /\ auth = TRUE
    /\ days = {}
    /\ inputsDir = FALSE
    /\ inputs = {}
    /\ Holds(1, {})
    /\ clock = 0
    /\ InitProcess

\* A line of the output stream: a message, or a line of the summary
Line(kind, lang, user, t1, t2) ==
    [kind |-> kind, lang |-> lang, user |-> user, p1 |-> t1, p2 |-> t2]

Info(text) == Line(text, "", NoName, 0, 0)

\* A script starts: everything the last one left in memory is gone
Start(t, a) ==
    /\ pc = "idle"
    /\ tool' = t
    /\ args' = a
    /\ inv' = inv + 1
    /\ before' = [days |-> days, tree |-> tree, files |-> files]
    /\ past' = past

\* --------------------------------------------------------------- fetch.py
\* a default of day 1 where the code has None
DefaultDayOne == IF days = {} THEN 1 ELSE Max(days)

\* the default of the day argument: the highest day directory, 0 for None
DefaultDay == IF days = {} THEN 0 ELSE Max(days)

\* fetch.py as a script: parse_args, the test of args.day, then fetch
FetchMain(dayArg, cookie) ==
    /\ Start("fetch", [NoArgs EXCEPT !.day = IF dayArg = 0 THEN DefaultDay
                                              ELSE dayArg,
                                     !.given = dayArg,
                                     !.cookie = cookie])
    /\ IF dayArg = 0 /\ DefaultDay = 0
       THEN /\ exit' = 1
            /\ err' = <<"Day is required">>
            /\ pc' = "done"
       ELSE /\ exit' = -1
            /\ err' = <<>>
            /\ pc' = "fetch"
    /\ log' = <<>>
    /\ out' = <<>>
    /\ UNCHANGED <<fsVars, todo, runVars>>

\* the read of auth.txt never raises, as with open(..., "a+")
CookieNeverMissing(a) == FALSE

\* cookie is None and open("auth.txt") raises FileNotFoundError
CookieMissing(a) == ~a.cookie /\ ~auth

\* check=False: the status of curl is ignored
FetchNeverRaises(rc) == FALSE

\* check=True of the curl subprocess: a non-zero status raises
FetchRaises(rc) == rc # 0

\* fetch(day, cookie): read auth.txt unless a cookie was given, make the
\* directory inputs, run curl (check=True).  curl writes the response to
\* inputs/day<dd>.txt; a failed curl may or may not have written it.
Fetch ==
    /\ pc = "fetch"
    /\ IF CookieMissing(args)
       THEN /\ Ends(1, "FileNotFoundError")
            /\ UNCHANGED <<inputsDir, inputs, log, out, pending>>
       ELSE \E rc \in {0, 1} :
            /\ inputsDir' = TRUE
            /\ log' = log \o << MkdirEffect("inputs", 0, NoName),
                                Effect("exec", <<"curl", "-o", "inputs">>,
                                       args.day, NoName, 0, rc, <<>>) >>
            /\ IF FetchRaises(rc)
               THEN /\ inputs' \in {inputs, inputs \cup {args.day}}
                    /\ Ends(1, "CalledProcessError")
                    /\ UNCHANGED <<out, pending>>
               ELSE /\ inputs' = IF rc = 0 THEN inputs \cup {args.day}
                                ELSE inputs
                    /\ err' = err
                    /\ IF tool = "run"
                       THEN /\ pc' = "loop"
                            /\ exit' = exit
                            /\ out' = Append(out, Info("Taking samples"))
                            /\ pending' = Entries(args.day)
                       ELSE /\ pc' = "done"
                            /\ exit' = 0
                            /\ UNCHANGED <<out, pending>>
    /\ UNCHANGED <<auth, days, tree, files, tool, args, inv, todo,
                   cur, round, step, p1, acc, times, observed, clock,
                   before, past>>

\* --------------------------------------------------------------- setup.py
\* is_dir with the test dropped: the scaffolder always goes on
is_dir_never(d, name) == FALSE

\* is_dir taken to mean "has files": an empty directory counts as new
is_dir_nonempty(d, name) == <<d, name>> \in tree /\ FilesOf(d, name) # {}

\* p.is_dir(): the entries the scaffolder names are directories
is_dir(d, name) == <<d, name>> \in tree

\* setup.py as a script, up to the call of the setup routine: parse_args
\* (argparse ends the process with status 2 on a missing positional or a
\* value outside the choices), the is_dir test, mkdir(parents=True)
SetupMain(dayArg, lang, user) ==
    /\ Start("setup", [NoArgs EXCEPT !.day = dayArg, !.given = dayArg,
                                     !.lang = lang, !.user = user])
    /\ out' = <<>>
    /\ IF dayArg = 0 \/ lang \notin SuffixSet \/ user \notin UserChoices
       THEN /\ exit' = 2
            /\ err' = <<"usage">>
            /\ pc' = "done"
            /\ log' = <<>>
            /\ UNCHANGED <<days, tree, todo>>
       ELSE LET name == AttemptName(lang, user, dayArg)
            IN  IF is_dir(dayArg, name)
                THEN /\ exit' = 1
                     /\ err' = <<"You've already started on that!">>
                     /\ pc' = "done"
                     /\ log' = <<>>
                     /\ UNCHANGED <<days, tree, todo>>
                ELSE /\ days' = days \cup {dayArg}
                     /\ tree' = tree \cup {<<dayArg, name>>}
                     /\ log' = <<MkdirEffect("attempt", dayArg, name)>>
                     /\ todo' = SETUPS(lang)
                     /\ exit' = -1
                     /\ err' = <<>>
                     /\ pc' = "setup"
    /\ UNCHANGED <<auth, files, inputsDir, inputs, runVars>>

\* the directory p of the running scaffolder
Target == AttemptName(args.lang, args.user, args.day)

\* One operation of SETUPS[args.lang](p, args.day).  A subprocess that exits
\* non-zero raises CalledProcessError, which nothing catches.
SetupStep ==
    /\ pc = "setup"
    /\ todo # <<>>
    /\ LET o == Head(todo)
       IN  CASE o.op = "exec" ->
                  \E rc \in {0, 1} :
                    /\ log' = Append(log, Launch(o.cmd, args.day, Target, 0, rc))
                    /\ IF rc = 0
                       THEN /\ files' = PutAll(files, args.day, Target, o.makes)
                            /\ todo' = Tail(todo)
                            /\ UNCHANGED <<pc, exit, err>>
                       ELSE /\ Ends(1, "CalledProcessError")
                            /\ UNCHANGED <<files, todo>>
             [] o.op = "write" ->
                  /\ files' = Put(files, args.day, Target, o.file, o.text)
                  /\ log' = Append(log, WriteEffect(o.file, args.day, Target))
                  /\ todo' = Tail(todo)
                  /\ UNCHANGED <<pc, exit, err>>
             [] o.op = "edit" ->
                  IF HasFile(args.day, Target, o.file)
                  THEN /\ files' = Put(files, args.day, Target, o.file, o.text)
                       /\ log' = Append(log, WriteEffect(o.file, args.day, Target))
                       /\ todo' = Tail(todo)
                       /\ UNCHANGED <<pc, exit, err>>
                  ELSE /\ Ends(1, "FileNotFoundError")
                       /\ UNCHANGED <<files, log, todo>>
    /\ UNCHANGED <<auth, days, tree, inputsDir, inputs, tool, args, out, inv,
                   runVars, before, past>>

\* subprocess.run(["code", p.resolve()], check=True), then the script ends
SetupEditor ==
    /\ pc = "setup"
    /\ todo = <<>>
    /\ \E rc \in {0, 1} :
         /\ log' = Append(log, Effect("exec", <<"code">>, args.day, Target,
                                      0, rc, <<>>))
         /\ IF rc = 0 THEN Ends(0, "") ELSE Ends(1, "CalledProcessError")
    /\ UNCHANGED <<fsVars, tool, args, out, inv, todo, runVars, before, past>>

\* ----------------------------------------------------------------- run.py
RECURSIVE Sum(_)
Sum(xs) == IF xs = <<>> THEN 0 ELSE Head(xs) + Sum(Tail(xs))

\* int(mean(xs)) of non-negative integers: statistics.mean is exact, int()
\* drops the fraction
IntMean(xs) == Sum(xs) \div Len(xs)

Part1s(samples) == [i \in DOMAIN samples |-> samples[i][1]]

Part2s(samples) == [i \in DOMAIN samples |-> samples[i][2]]

\* times[lang][user] = samples, on a dict that keeps the order of insertion
SetItem(items, user, samples) ==
    IF \E i \in DOMAIN items : items[i].user = user
    THEN [i \in DOMAIN items |->
            IF items[i].user = user
            THEN [user |-> user, samples |-> samples] ELSE items[i]]
    ELSE Append(items, [user |-> user, samples |-> samples])

\* the lines summarize prints for one language
UserLines(lang, items) ==
    IF Len(items) = 0 THEN <<Info(" == No Submissions ==")>>
    ELSE [i \in DOMAIN items |->
            Line("user", lang, items[i].user,
                 IntMean(Part1s(items[i].samples)),
                 IntMean(Part2s(items[i].samples)))]

\* summarize(times): the languages in sorted order, which is that of
\* SUFFIXES; a time is kept in ns, the line shows it divided by 1000000
RECURSIVE SummaryFrom(_, _)
SummaryFrom(t, i) ==
    IF i > Len(SUFFIXES) THEN <<>>
    ELSE (IF Chars(SUFFIXES[i]) \in DOMAIN t
          THEN <<Line("lang", SUFFIX_LANGS[SUFFIXES[i]], NoName, 0, 0)>>
               \o UserLines(SUFFIXES[i], t[Chars(SUFFIXES[i])])
          ELSE <<>>)
         \o SummaryFrom(t, i + 1)

summarize(t) == SummaryFrom(t, 1)

\* args.num_rounds = max(args.num_rounds, 1)
ClampRounds(n) == IF n > 1 THEN n ELSE 1

\* args.warmup_rounds = max(args.warmup_rounds, 0)
ClampWarmup(w) == IF w > 0 THEN w ELSE 0

\* run.py as a script, up to the call of fetch: parse_args, which ends the
\* process when no day directory exists at all, and the test of the day
RunMain(dayArg, w, n) ==
    /\ Start("run", [NoArgs EXCEPT !.day = IF dayArg = 0 THEN DefaultDay
                                            ELSE dayArg,
                                   !.given = dayArg,
                                   !.warmup = ClampWarmup(w),
                                   !.rounds = ClampRounds(n)])
    /\ log' = <<>>
    /\ out' = <<>>
    /\ IF DefaultDay = 0
       THEN /\ exit' = 1
            /\ err' = <<"No days available to execute">>
            /\ pc' = "done"
       ELSE IF dayArg # 0 /\ dayArg \notin days
       THEN /\ exit' = 1
            /\ err' = <<"There are no attempts for day">>
            /\ pc' = "done"
       ELSE /\ exit' = -1
            /\ err' = <<>>
            /\ pc' = "fetch"
    /\ UNCHANGED <<fsVars, todo, runVars>>

\* The head of the loop over day.iterdir(), which yields the entries in no
\* particular order: the match, the choice of the runner, times[lang] = {}
RunEntry ==
    /\ pc = "loop"
    /\ \E e \in pending :
         /\ pending' = pending \ {e}
         /\ IF EntryMatch(e) = {}
            THEN /\ Ends(1, "Invalid entry")
                 /\ UNCHANGED <<cur, times>>
            ELSE LET m == CHOOSE g \in EntryMatch(e) : TRUE
                 IN  IF Runner(m[1]) = <<>>
                     THEN /\ err' = Append(err, "Unknown language; skipping")
                          /\ UNCHANGED <<pc, exit, cur, times>>
                     ELSE /\ cur' = [name |-> e, lang |-> m[1], user |-> m[2]]
                          /\ times' = IF m[1] \in DOMAIN times THEN times
                                      ELSE (m[1] :> <<>>) @@ times
                          /\ pc' = "runner"
                          /\ UNCHANGED <<exit, err>>
    /\ round' = 0
    /\ step' = 1
    /\ acc' = <<>>
    /\ UNCHANGED <<fsVars, tool, args, out, log, inv, todo, p1, observed,
                   clock, before, past>>

\* check=False: the status of a subprocess of a runner is ignored
RunnerNeverRaises(rc) == FALSE

\* check=True of the subprocesses of the runners: a non-zero status raises
RunnerRaises(rc) == rc # 0

\* every call of the runner, the warm-up calls too, adds its sample
RetainedAll(samples, r, warmup, sample) == Append(samples, sample)

\* the list of samples after a call of the runner: the first
\* args.warmup_rounds calls are statements whose value is dropped, the
\* others are the elements of the list comprehension
Retained(samples, r, warmup, sample) ==
    IF r < warmup THEN samples ELSE Append(samples, sample)

\* One subprocess of runner(entry), in one of the warmup_rounds + num_rounds
\* calls.  The clock is read before and after each timed subprocess; the
\* last subprocess ends the call, and the last call assigns the list.
RunnerStep ==
    /\ pc = "runner"
    /\ LET s == Runner(cur.lang)[step]
           last == step = Len(Runner(cur.lang))
       IN  \E rc \in Statuses(s.cmd, args.day, cur.name) :
           \E dt \in 0..(MaxClock - clock) :
             /\ clock' = clock + dt
             /\ log' = Append(log, Launch(s.cmd, args.day, cur.name, s.part, rc))
             /\ IF RunnerRaises(rc)
                THEN /\ Ends(1, "CalledProcessError")
                     /\ UNCHANGED <<files, cur, round, step, p1, acc, times,
                                    observed>>
                ELSE /\ files' = IF rc = 0
                                 THEN PutAll(files, args.day, cur.name,
                                        BuildMakes(args.day, cur.name, s.cmd))
                                 ELSE files
                     /\ p1' = IF s.part = 1 THEN dt ELSE p1
                     /\ UNCHANGED <<exit, err>>
                     /\ IF ~last
                        THEN /\ step' = step + 1
                             /\ UNCHANGED <<pc, cur, round, acc, times, observed>>
                        ELSE LET sample == <<p1, dt>>
                                 kept == Retained(acc, round, args.warmup, sample)
                                 done == round + 1 = args.warmup + args.rounds
                             IN  /\ observed' = Append(observed,
                                       [name |-> cur.name, round |-> round,
                                        sample |-> sample])
                                 /\ round' = round + 1
                                 /\ step' = 1
                                 /\ acc' = IF done THEN <<>> ELSE kept
                                 /\ times' = IF done
                                     THEN [times EXCEPT ![cur.lang] =
                                             SetItem(@, cur.user, kept)]
                                     ELSE times
                                 /\ pc' = IF done THEN "loop" ELSE pc
                                 /\ cur' = IF done THEN NoCur ELSE cur
    /\ UNCHANGED <<auth, days, tree, inputsDir, inputs, tool, args, out, inv,
                   todo, pending, before, past>>

\* the loop is over: the summary is printed and the script ends
Summarize ==
    /\ pc = "loop"
    /\ pending = {}
    /\ out' = Append(out, Info("Results")) \o summarize(times)
    /\ Ends(0, "")
    /\ UNCHANGED <<fsVars, tool, args, log, inv, todo, runVars, before, past>>

\* ------------------------------------------------------- specifications
\* One script, started in any working tree
Next ==
    \/ \E d \in 0..MaxDay : \E c \in BOOLEAN : FetchMain(d, c)
    \/ Fetch
    \/ \E d \in 0..MaxDay : \E l \in SuffixSet \cup {"cpp", ""} :
         \E u \in UserChoices \cup {""} : SetupMain(d, l, u)
    \/ SetupStep
    \/ SetupEditor
    \/ \E d \in 0..MaxDay : \E w \in -1..MaxWarmup : \E n \in 0..MaxRounds :
         RunMain(d, w, n)
    \/ RunEntry
    \/ RunnerStep
    \/ Summarize

Spec == Init /\ [][Next]_vars

\* The bench-runner alone, with a clock that advances
NextBench ==
    \/ \E d \in 0..MaxDay : \E w \in -1..MaxWarmup : \E n \in 0..MaxRounds :
         RunMain(d, w, n)
    \/ Fetch
    \/ RunEntry
    \/ RunnerStep
    \/ Summarize

SpecBench == InitBench /\ [][NextBench]_vars

\* ------------------------------------------- a session of the scaffolder
\* the setup routine of the scaffolder run that ended had failed
SetupFailed ==
    \/ \E i \in DOMAIN log :
         log[i].op = "exec" /\ log[i].rc # 0 /\ log[i].cmd # <<"code">>
    \/ log # <<>> /\ err = <<"FileNotFoundError">>

\* The script has ended and the user is back at the prompt
Again ==
    /\ pc = "done"
    /\ inv < MaxInv
    /\ pc' = "idle"
    /\ past' = IF tool = "setup" /\ exit # 2
               THEN past \cup {[day |-> args.day, lang |-> args.lang,
                                user |-> args.user, failed |-> SetupFailed]}
               ELSE past
    /\ UNCHANGED <<fsVars, tool, args, exit, err, out, log, inv, todo,
                   runVars, before>>

\* the source file the setup routine of a language writes the boilerplate to
SourceFile(lang) ==
    CASE lang = "py" -> "main.py"
      [] lang = "go" -> "main.go"
      [] lang = "js" -> "index.js"
      [] lang = "ts" -> "index.ts"
      [] lang = "rs" -> "src/main.rs"

\* the command line that runs an attempt with the arguments a
DirectCmd(lang, a) ==
    CASE lang = "py" -> <<PYTHON, "main.py">> \o a
      [] lang = "go" -> <<"go", "run", ".">> \o a
      [] lang \in {"js", "ts"} -> <<"node", "index.js">> \o a
      [] lang = "rs" -> <<"cargo", "run", "--release", "--quiet", "--">> \o a

\* The user runs a scaffolded attempt by hand, with "1", "2" or no argument
\* (a TypeScript attempt compiled first)
ExecDirect(d, lang, user, which) ==
    LET name == AttemptName(lang, user, d)
        cmd == DirectCmd(lang, IF which = "" THEN <<>> ELSE <<which>>)
    IN  /\ Start("direct", [NoArgs EXCEPT !.day = d, !.given = d, !.lang = lang,
                                          !.user = user, !.which = which])
        /\ HasFile(d, name, SourceFile(lang))
        /\ log' = << Effect("exec", cmd, d, name, 0, 0,
                            Behaviour(TextOf(d, name, SourceFile(lang)),
                                      ProgramArgv(cmd))) >>
        /\ out' = <<>>
        /\ err' = <<>>
        /\ exit' = 0
        /\ pc' = "done"
        /\ UNCHANGED <<fsVars, todo, runVars>>

\* A session of one user, ahr: up to MaxInv scripts, one after the other
NextSetup ==
    \/ \E d \in 0..MaxDay : \E l \in SuffixSet \cup {"cpp", ""} :
         \E u \in {"ahr", ""} : SetupMain(d, l, u)
    \/ SetupStep
    \/ SetupEditor
    \/ \E d \in Days : \E l \in SuffixSet : \E a \in {"", "1", "2"} :
         ExecDirect(d, l, "ahr", a)
    \/ Again

SpecSetup == InitSetup /\ [][NextSetup]_vars

\* ================================================================ claims
\* the running scaffolder was given the tuple of the earlier run r
SameTuple(r) ==
    r.day = args.day /\ r.lang = args.lang /\ r.user = args.user

\* the running script left the file tree as it found it
TreeUntouched ==
    days = before.days /\ tree = before.tree /\ files = before.files

\* C1: a scaffolder run with the (day, language, user) of an earlier run
\* ends at once with status 1 and a message, having made no directory,
\* started no subprocess and written no file: the tree is as it found it,
\* and the directory of every earlier run is in it.
C1_SecondRunFails ==
    /\ \A r \in past : <<r.day, AttemptName(r.lang, r.user, r.day)>> \in tree
    /\ (tool = "setup" /\ pc # "idle" /\ \E r \in past : SameTuple(r))
         => /\ pc = "done"
            /\ exit = 1
            /\ err # <<>>
            /\ log = <<>>
            /\ TreeUntouched

\* C1 witness: the second run has ended, and the first had written files
C1_Witness ==
    /\ tool = "setup"
    /\ pc = "done"
    /\ exit = 1
    /\ \E r \in past : SameTuple(r) /\ ~r.failed
    /\ FilesOf(args.day, Target) # {}

\* C2: run with "1" the boilerplate prints Part 1 and calls part1 only, with
\* "2" Part 2 and part2 only, with no argument both, part 1 first.
C2_BoilerplateRunsTheAskedParts ==
    (tool = "direct" /\ pc = "done") =>
        log[1].ran =
            CASE args.which = "1" -> <<"Part 1", "part1()">>
              [] args.which = "2" -> <<"Part 2", "part2()">>
              [] OTHER -> <<"Part 1", "part1()", "Part 2", "part2()">>

\* C10: when the setup routine fails, the script ends with status 1 without
\* starting the editor and the directory stays; every later run with that
\* tuple ends with status 1 and does nothing, so the attempt stays as it is.
C10_PartialScaffoldStays ==
    /\ (tool = "setup" /\ pc = "done" /\ SetupFailed)
         => /\ exit = 1
            /\ \A i \in DOMAIN log : log[i].cmd # <<"code">>
            /\ <<args.day, Target>> \in tree
    /\ (tool = "setup" /\ pc # "idle"
          /\ \E r \in past : SameTuple(r) /\ r.failed)
         => /\ pc = "done"
            /\ exit = 1
            /\ log = <<>>
            /\ TreeUntouched

\* C10 witness: a later run on an attempt whose boilerplate was never written
C10_Witness ==
    /\ tool = "setup"
    /\ pc = "done"
    /\ exit = 1
    /\ \E r \in past : SameTuple(r) /\ r.failed
    /\ ~HasFile(args.day, Target, SourceFile(args.lang))

\* <lang>-<user>-day<NN>: a word, "-", a word, "-day" and a number
WellNamed(name) ==
    \E a \in DOMAIN name : \E b \in DOMAIN name :
        /\ IsWords(SubSeq(name, 1, a))
        /\ IsWords(SubSeq(name, a + 2, b))
        /\ IsDigits(SubSeq(name, b + 5, Len(name)))
        /\ name = SubSeq(name, 1, a) \o <<"-">> \o SubSeq(name, a + 2, b)
                  \o <<"-", "d", "a", "y">> \o SubSeq(name, b + 5, Len(name))

IsCurl(e) == e.op = "exec" /\ e.cmd[1] = "curl"

\* an effect on an attempt directory: made, written to, built or run
OnAttempt(e) == e.name # NoName

LastErr == IF err = <<>> THEN "" ELSE err[Len(err)]

\* C3: for an entry of the day directory whose name is not of the form
\* <lang>-<user>-day<NN>, the bench-runner starts no subprocess; the loop
\* does not get past it, and the script never ends with status 0.
C3_BadNameStopsTheRun ==
    tool = "run" =>
        \A e \in Entries(args.day) :
            ~WellNamed(e) =>
                /\ \A i \in DOMAIN log : log[i].name # e
                /\ pc \in {"loop", "runner"} => e \in pending
                /\ pc = "done" => exit = 1
                /\ (pc = "done" /\ e \notin pending /\ out # <<>>)
                     => LastErr = "Invalid entry"

\* C3 witness: the loop ran one attempt and then stopped at a bad name
C3_Witness ==
    /\ tool = "run"
    /\ pc = "done"
    /\ LastErr = "Invalid entry"
    /\ \E e \in Entries(args.day) : ~WellNamed(e) /\ e \notin pending
    /\ \E i \in DOMAIN log : OnAttempt(log[i]) /\ log[i].rc = 0

\* C5: fetch without a cookie and without auth.txt fails before curl is
\* started, and nothing of inputs/ is made.
C5_NoCredentialNoRequest ==
    (tool \in {"fetch", "run"} /\ ~args.cookie /\ ~auth /\ pc # "idle")
        => /\ \A i \in DOMAIN log : ~IsCurl(log[i])
           /\ ~inputsDir
           /\ inputs = {}
           /\ pc \in {"fetch", "done"}
           /\ pc = "done" => exit = 1

\* C5 witness: fetch.py, given a day, ended on the missing auth.txt
C5_Witness ==
    /\ tool = "fetch"
    /\ pc = "done"
    /\ args.given # 0
    /\ ~args.cookie
    /\ ~auth
    /\ err = <<"FileNotFoundError">>

\* C7 as stated: in the bench-runner and in the scaffolder, fetch has
\* completed before anything is done to an attempt directory.
C7_BothFetchFirst ==
    tool \in {"run", "setup"} =>
        \A i \in DOMAIN log :
            OnAttempt(log[i]) =>
                \E j \in 1..(i - 1) : IsCurl(log[j]) /\ log[j].rc = 0

\* C7, amended: the bench-runner calls fetch for the requested day, and the
\* call has completed, the input written, before a subprocess of a runner
\* starts; the scaffolder never calls fetch.
C7_RunnerFetchesFirst ==
    /\ tool = "run" =>
         \A i \in DOMAIN log :
             OnAttempt(log[i]) =>
                 /\ \E j \in 1..(i - 1) :
                      IsCurl(log[j]) /\ log[j].rc = 0 /\ log[j].day = args.day
                 /\ args.day \in inputs
    /\ tool = "setup" =>
         /\ \A i \in DOMAIN log : ~IsCurl(log[i])
         /\ ~inputsDir

\* C7 witness: a runner ran after curl had written the input
C7_Witness ==
    /\ tool = "run"
    /\ \E i \in DOMAIN log : OnAttempt(log[i]) /\ log[i].part = 2
    /\ IsCurl(log[2])
    /\ args.day \in inputs

\* C8: the timed run of part k of an attempt that is the scaffolder's
\* boilerplate prints Part k and calls partk, and nothing else.
C8_RunnerReachesThePart ==
    tool = "run" =>
        \A i \in DOMAIN log :
            (log[i].part > 0 /\ log[i].rc = 0 /\ log[i].ran # <<"custom">>)
                => log[i].ran = IF log[i].part = 1
                                THEN <<"Part 1", "part1()">>
                                ELSE <<"Part 2", "part2()">>

\* C9: once a subprocess of the bench-runner has exited non-zero the script
\* has ended with status 1: that subprocess is the last one, and no summary
\* is printed.
C9_FailureAbortsTheRun ==
    tool = "run" =>
        \A i \in DOMAIN log :
            (log[i].op = "exec" /\ log[i].rc # 0)
                => /\ i = Len(log)
                   /\ pc = "done"
                   /\ exit = 1
                   /\ \A k \in DOMAIN out : out[k].kind # "Results"

\* C9 witness: a measured call failed while another entry was still to come
C9_Witness ==
    /\ tool = "run"
    /\ pc = "done"
    /\ pending # {}
    /\ round >= 1
    /\ log[Len(log)].rc # 0
    /\ log[Len(log)].part = 2

\* ---- C6
Skipping == "Unknown language; skipping"

ArgparseError ==
    /\ tool = "setup"
    /\ args.given = 0 \/ args.lang \notin SuffixSet
         \/ args.user \notin UserChoices

MissingDayOrLanguage ==
    tool = "setup" /\ (args.given = 0 \/ args.lang \notin SuffixSet)

Duplicate ==
    /\ tool = "setup"
    /\ ~ArgparseError
    /\ <<args.day, Target>> \in before.tree

NoDay == tool \in {"fetch", "run"} /\ args.given = 0 /\ before.days = {}

BadEntryTaken ==
    /\ tool = "run"
    /\ out # <<>>
    /\ \E e \in Entries(args.day) : ~WellNamed(e) /\ e \notin pending

UnknownLanguageTaken ==
    tool = "run" /\ \E i \in DOMAIN err : err[i] = Skipping

SamplesOf(e) == SelectSeq(observed, LAMBDA o : o.name = e)

MeasuredOf(e) ==
    SelectSeq(observed, LAMBDA o : o.name = e /\ o.round >= args.warmup)

WarmupOf(e) ==
    SelectSeq(observed, LAMBDA o : o.name = e /\ o.round < args.warmup)

Firsts(obs) == [i \in DOMAIN obs |-> obs[i].sample[1]]

Seconds(obs) == [i \in DOMAIN obs |-> obs[i].sample[2]]

\* the attempt directories of the day: a name of the form and a language
\* that has a runner
Attempts ==
    {e \in Entries(args.day) :
        WellNamed(e) /\ \E l \in SuffixSet : SubSeq(e, 1, 2) = Chars(l)
                     /\ e[3] = "-"}

\* the language and the user of an attempt directory
LangOf(e) == SubSeq(e, 1, 2)

UserOf(e) ==
    LET rest == SubSeq(e, 4, Len(e))
        dash == CHOOSE i \in DOMAIN rest :
                    rest[i] = "-" /\ \A k \in 1..(i - 1) : rest[k] # "-"
    IN  SubSeq(rest, 1, dash - 1)

\* the lines of the summary for a language and a user
LinesFor(lang, user) ==
    {k \in DOMAIN out : out[k].kind = "user" /\ Chars(out[k].lang) = lang
                         /\ out[k].user = user}

\* the place in observed of the last sample of entry e
LastSample(e) ==
    Max({0} \cup {i \in DOMAIN observed : observed[i].name = e})

\* the runner was called warmup_rounds + num_rounds times for e, in order
CalledInOrder(e) ==
    /\ Len(SamplesOf(e)) = args.warmup + args.rounds
    /\ \A i \in DOMAIN SamplesOf(e) : SamplesOf(e)[i].round = i - 1
    /\ Len(MeasuredOf(e)) = args.rounds

\* C4 as stated: for every attempt directory the runner is called
\* warmup_rounds times and then num_rounds times, and the summary's times
\* for its language and user are the arithmetic means of the num_rounds
\* samples of the latter calls.
C4_SummaryIsTheMean ==
    (tool = "run" /\ pc = "done" /\ exit = 0) =>
        \A e \in Attempts :
            /\ CalledInOrder(e)
            /\ \E k \in LinesFor(LangOf(e), UserOf(e)) :
                 /\ out[k].p1 * args.rounds = Sum(Firsts(MeasuredOf(e)))
                 /\ out[k].p2 * args.rounds = Sum(Seconds(MeasuredOf(e)))

\* C4, amended: ... and the summary has one line for each language and
\* user, whose times are the arithmetic means, cut down to whole
\* nanoseconds, of the num_rounds samples of the latter calls for the
\* directory of that language and user that the loop took last.
C4_SummaryIsTheTruncatedMean ==
    (tool = "run" /\ pc = "done" /\ exit = 0) =>
        \A e \in Attempts :
            /\ CalledInOrder(e)
            /\ Cardinality(LinesFor(LangOf(e), UserOf(e))) = 1
            /\ (\A f \in Attempts :
                  (LangOf(f) = LangOf(e) /\ UserOf(f) = UserOf(e))
                      => LastSample(f) <= LastSample(e))
                 => \A k \in LinesFor(LangOf(e), UserOf(e)) :
                      /\ out[k].p1 =
                           Sum(Firsts(MeasuredOf(e))) \div args.rounds
                      /\ out[k].p2 =
                           Sum(Seconds(MeasuredOf(e))) \div args.rounds

\* C4 witness: a summary after a warm-up call that took time and two
\* measured calls whose part 1 times do not add up to an even number
C4_Witness ==
    /\ tool = "run"
    /\ pc = "done"
    /\ exit = 0
    /\ args.warmup = 1
    /\ args.rounds = 2
    /\ \E e \in Attempts :
         /\ Sum(Firsts(WarmupOf(e))) > 0
         /\ Sum(Firsts(MeasuredOf(e))) % 2 = 1

====
